---- MODULE Spec2Model ----
(***************************************************************************)
(* Leak-Lookup Telegram bot (src/main.py): the per-message handler         *)
(* handle_check, the lookup helper leaklookup_query, the normalizer        *)
(* summarize_results / fmt_breach_item and the chunking expression.        *)
(*                                                                         *)
(* Reading of the source.  Lines 135-170 of src/main.py are mis-indented:  *)
(* lines 135-149 sit at column 0 and lines 150-170 are indented one level. *)
(* The model takes lines 127-170 as the body of handle_check, in source    *)
(* order, with the block nesting the relative indentation gives: lines     *)
(* 150-170 belong to the block of `if err:` (line 147) and follow its      *)
(* `return` (line 149), so no execution reaches them.                      *)
(*                                                                         *)
(* Strings are sequences of atoms.  An atom is one character, except that  *)
(* literal words of the program ("breach-test", key names, "unknown") are  *)
(* written as one atom of the length given by AtomLen.                     *)
(***************************************************************************)
EXTENDS Integers, Sequences, FiniteSets, TLC

\* ---------------------------------------------------------------- bounds
MaxLen    == 3      \* atoms in an incoming message text
MaxBody   == 5000   \* longest text the lookup service or the HTTP library returns

\* ------------------------------------------------------ program constants
ChunkLimit     == 3000   \* msg[i:i+3000]
HttpBodyPrefix == 400    \* r.text[:400]
JsonBodyPrefix == 300    \* r.text[:300]

\* two chat sessions, one incoming message each
Chats == {"chatA", "chatB"}

\* ------------------------------------------------------------ text helpers
Alphabet == {"@", ".", " ", "A", "breach-test"}

\* characters an atom stands for
AtomLen(a) ==
    CASE a = "breach-test"       -> 11
      [] a = "Unknown API error" -> 17
      [] a = "long-text"         -> MaxBody
      [] a = "unknown"           -> 7
      [] a \in {"None", "True"}  -> 4
      [] a = "False"             -> 5
      [] OTHER                   -> 1

RECURSIVE TextLen(_)
TextLen(s) == IF s = <<>> THEN 0 ELSE AtomLen(Head(s)) + TextLen(Tail(s))

Texts == UNION {[1..n -> Alphabet] : n \in 0..MaxLen}

Min(a, b) == IF a < b THEN a ELSE b

Contains(s, a) == \E i \in DOMAIN s : s[i] = a

\* str.strip(): leading and trailing whitespace removed
RECURSIVE LStrip(_)
LStrip(s) == IF s # <<>> /\ Head(s) = " " THEN LStrip(Tail(s)) ELSE s

RECURSIVE RStrip(_)
RStrip(s) == IF s # <<>> /\ s[Len(s)] = " " THEN RStrip(SubSeq(s, 1, Len(s) - 1)) ELSE s

Strip(s) == RStrip(LStrip(s))

\* str.lower()
LowerAtom(a) == IF a = "A" THEN "a" ELSE a

Lower(s) == [i \in DOMAIN s |-> LowerAtom(s[i])]

\* s.split("@")[-1]: what follows the last "@" (all of s when there is none)
LastPart(s) ==
    LET at == {i \in DOMAIN s : s[i] = "@"}
    IN  IF at = {} THEN s
        ELSE LET last == CHOOSE i \in at : \A j \in at : j <= i
             IN  SubSeq(s, last + 1, Len(s))

\* is_likely_email looking for the "." anywhere in the text
is_likely_email_dotAnywhere(s) ==
    LET t == Strip(s)
    IN  Contains(t, "@") /\ Contains(t, ".")

is_likely_email(s) ==
    LET t == Strip(s)
    IN  Contains(t, "@") /\ Contains(LastPart(t), ".")

\* --------------------------------------------------------------- JSON
\* A JSON value is [k |-> kind, v |-> value]; a dict holds a sequence of
\* <<key, value>> pairs in insertion order, a str a sequence of atoms.
JNull     == [k |-> "null", v |-> 0]
JStr(s)   == [k |-> "str",  v |-> s]
JNum(n)   == [k |-> "num",  v |-> n]
JBool(b)  == [k |-> "bool", v |-> b]
JList(xs) == [k |-> "list", v |-> xs]
JDict(ps) == [k |-> "dict", v |-> ps]

\* Python truth value
Truthy(j) ==
    CASE j.k = "null" -> FALSE
      [] j.k = "str"  -> j.v # <<>>
      [] j.k = "num"  -> j.v # 0
      [] j.k = "bool" -> j.v
      [] j.k = "list" -> j.v # <<>>
      [] j.k = "dict" -> j.v # <<>>

\* key in d
HasKey(d, key) == \E i \in DOMAIN d.v : d.v[i][1] = key

\* d.get(key, default)
Get(d, key, default) ==
    IF HasKey(d, key)
    THEN d.v[CHOOSE i \in DOMAIN d.v : d.v[i][1] = key][2]
    ELSE default

\* a or b
Or(a, b) == IF Truthy(a) THEN a ELSE b

\* decimal digits of a natural number
RECURSIVE Digits(_)
Digits(n) ==
    IF n < 10 THEN <<(<<"0", "1", "2", "3", "4", "5", "6", "7", "8", "9">>)[n + 1]>>
    ELSE Digits(n \div 10) \o Digits(n % 10)

\* str(x) of a scalar
PyStr(x) ==
    CASE x.k = "str"  -> x.v
      [] x.k = "num"  -> Digits(x.v)
      [] x.k = "null" -> <<"None">>
      [] x.k = "bool" -> IF x.v THEN <<"True">> ELSE <<"False">>

\* ---------------------------------------------------------- normalizer
NoRecord == [name |-> JNull, date |-> JNull, data |-> <<>>, raw |-> JNull]

\* fmt_breach_item: [raised, rec]; raised when item has no .get (not a dict)
\* or when the resolved data value is truthy and not iterable.
fmt_breach_item(item) ==
    IF item.k # "dict" THEN [raised |-> TRUE, rec |-> NoRecord]
    ELSE
    LET name == Or(Or(Or(Or(Get(item, "source", JNull), Get(item, "site", JNull)),
                         Get(item, "domain", JNull)), Get(item, "Name", JNull)),
                   JStr(<<"unknown">>))
        date == Or(Or(Or(Or(Get(item, "date", JNull), Get(item, "BreachDate", JNull)),
                         Get(item, "created_at", JNull)), Get(item, "publish_date", JNull)),
                   JStr(<<>>))
        dc0  == Or(Or(Get(item, "data", JList(<<>>)), Get(item, "DataClasses", JList(<<>>))),
                   Get(item, "types", JList(<<>>)))
        dc1  == IF dc0.k = "dict"
                THEN JList([i \in DOMAIN dc0.v |-> JStr(<<dc0.v[i][1]>>)])
                ELSE dc0
        dc2  == Or(dc1, JList(<<>>))
    IN  CASE dc2.k = "list" ->
               [raised |-> FALSE,
                rec |-> [name |-> name, date |-> date,
                         data |-> [i \in DOMAIN dc2.v |-> PyStr(dc2.v[i])], raw |-> item]]
          [] dc2.k = "str" ->
               [raised |-> FALSE,
                rec |-> [name |-> name, date |-> date,
                         data |-> [i \in DOMAIN dc2.v |-> <<dc2.v[i]>>], raw |-> item]]
          [] OTHER -> [raised |-> TRUE, rec |-> NoRecord]

Raised == [raised |-> TRUE, results |-> <<>>]

\* for it in xs: [if isinstance(it, dict):] results.append(fmt_breach_item(it))
RECURSIVE AppendItems(_, _)
AppendItems(xs, onlyDicts) ==
    IF xs = <<>> THEN [raised |-> FALSE, results |-> <<>>]
    ELSE IF onlyDicts /\ Head(xs).k # "dict" THEN AppendItems(Tail(xs), onlyDicts)
    ELSE LET r    == fmt_breach_item(Head(xs))
             rest == AppendItems(Tail(xs), onlyDicts)
         IN  IF r.raised \/ rest.raised THEN Raised
             ELSE [raised |-> FALSE, results |-> <<r.rec>> \o rest.results]

\* for k, v in resp_json.items(): if isinstance(v, list): ...
RECURSIVE AppendEntries(_)
AppendEntries(ps) ==
    IF ps = <<>> THEN [raised |-> FALSE, results |-> <<>>]
    ELSE LET here == IF Head(ps)[2].k = "list" THEN AppendItems(Head(ps)[2].v, TRUE)
                     ELSE [raised |-> FALSE, results |-> <<>>]
             rest == AppendEntries(Tail(ps))
         IN  IF here.raised \/ rest.raised THEN Raised
             ELSE [raised |-> FALSE, results |-> here.results \o rest.results]

CandidateKeys == <<"results", "data", "items", "matches", "breaches">>

summarize_results(resp_json) ==
    CASE resp_json.k = "dict" ->
           LET hit == {i \in DOMAIN CandidateKeys :
                          /\ HasKey(resp_json, CandidateKeys[i])
                          /\ Get(resp_json, CandidateKeys[i], JNull).k = "list"}
           IN  IF hit # {}
               THEN LET first == CHOOSE i \in hit : \A j \in hit : i <= j
                    IN  AppendItems(Get(resp_json, CandidateKeys[first], JNull).v, FALSE)
               ELSE AppendEntries(resp_json.v)
      [] resp_json.k = "list" -> AppendItems(resp_json.v, TRUE)
      [] OTHER -> [raised |-> FALSE, results |-> <<>>]

\* ------------------------------------------------------------- chunker
\* chunk with range(0, len(msg) - limit + 1, limit): a trailing short
\* segment is dropped
chunk_dropsRemainder(msg, limit) ==
    LET n == Len(msg) \div limit
    IN  [j \in 1..n |-> SubSeq(msg, (j - 1) * limit + 1, j * limit)]

\* [msg[i:i+limit] for i in range(0, len(msg), limit)]
chunk(msg, limit) ==
    LET n == (Len(msg) + limit - 1) \div limit
    IN  [j \in 1..n |-> SubSeq(msg, (j - 1) * limit + 1, Min(j * limit, Len(msg)))]

\* ------------------------------------------------ lookup service, errors
\* LEAKLOOKUP_KEY as configured: "" when the environment variable is unset
Keys == {"", "k1"}

\* the (data, error) pair leaklookup_query returns.  The error text is kept
\* as its kind, its length n and the credential values that occur in it.
NoErr == [kind |-> "none", n |-> 0, secrets |-> {}]

ErrText(kind, n, secrets) == [kind |-> kind, n |-> n, secrets |-> secrets]

\* text of an exception: n characters; showsRequest when it describes the
\* request that was made (URL with the query parameters of lines 45-49).
ExcTexts == {[n |-> 41, showsRequest |-> FALSE], [n |-> 180, showsRequest |-> TRUE]}

BodyLens == {12, MaxBody}

ApiPayloads ==
    { JDict(<< <<"error", JStr(<<"x">>)>>, <<"message", JStr(<<"long-text">>)>> >>),
      JDict(<< <<"error", JBool(TRUE)>> >>),
      JDict(<< <<"error", JBool(FALSE)>>, <<"results", JList(<<>>)>> >>),
      JDict(<< <<"results", JList(<< JDict(<< <<"source", JStr(<<"s">>)>> >>) >>)>> >>),
      JList(<<>>) }

\* what requests.get / r.json() can produce
Responses ==
    {[t |-> "exc", exc |-> e, status |-> 0, textLen |-> 0, data |-> JNull] : e \in ExcTexts}
    \cup {[t |-> "http", exc |-> e, status |-> st, textLen |-> n, data |-> JNull] :
             e \in {[n |-> 0, showsRequest |-> FALSE]}, st \in {500}, n \in BodyLens}
    \cup {[t |-> "badjson", exc |-> e, status |-> 200, textLen |-> n, data |-> JNull] :
             e \in {[n |-> 41, showsRequest |-> FALSE]}, n \in BodyLens}
    \cup {[t |-> "json", exc |-> e, status |-> 200, textLen |-> 0, data |-> d] :
             e \in {[n |-> 0, showsRequest |-> FALSE]}, d \in ApiPayloads}

\* leaklookup_query, lines 54-76: the outcome for a response r, with the
\* request parameters carrying the credential key
Classify(r, key) ==
    CASE r.t = "exc" ->
           [data |-> JNull,
            err |-> ErrText("request", 16 + r.exc.n,
                            IF r.exc.showsRequest THEN {key} ELSE {})]
      [] r.t = "http" ->
           [data |-> JNull,
            err |-> ErrText("http", 5 + TextLen(Digits(r.status)) + 2
                                      + Min(r.textLen, HttpBodyPrefix), {})]
      [] r.t = "badjson" ->
           [data |-> JNull,
            err |-> ErrText("json", 23 + r.exc.n + 3 + Min(r.textLen, JsonBodyPrefix), {})]
      [] r.t = "json" ->
           IF r.data.k = "dict" /\ Truthy(Get(r.data, "error", JNull))
           THEN LET msg == Get(r.data, "message", JStr(<<"Unknown API error">>))
                IN  [data |-> JNull, err |-> ErrText("api", 11 + TextLen(PyStr(msg)), {})]
           ELSE [data |-> r.data, err |-> NoErr]

\* lines 51-52
NoKeyOutcome == [data |-> JNull, err |-> ErrText("nokey", 39, {})]

NoOutcome == [data |-> JNull, err |-> NoErr]

\* --------------------------------------------------------------- replies
\* a text passed to update.message.reply_text
Reply(kind, email, err) == [kind |-> kind, email |-> email, err |-> err]

\* its length in characters
Length(m) ==
    CASE m.kind = "hint"      -> 68
      [] m.kind = "simulated" -> 36 + TextLen(m.email) + 88
      [] m.kind = "checking"  -> 25 + TextLen(m.email) + 4
      [] m.kind = "error"     -> 15 + m.err.n

\* ------------------------------------------------------------------ state
VARIABLES
    LEAKLOOKUP_KEY,  \* the configured credential (module level, line 35)
    live,            \* chats whose incoming message the runtime dispatches
    pc,              \* per chat: where its handle_check coroutine stands
    txt,             \* per chat: update.message.text
    email,           \* per chat: the local email of handle_check
    result,          \* per chat: the (resp, err) pair of line 146
    sent,            \* per chat: the texts passed to reply_text, in order
    loop,            \* the chat whose blocking call holds the event loop thread, or "idle"
    queryCalls,      \* per chat: calls of leaklookup_query
    netCalls,        \* per chat: calls of requests.get
    payload,         \* normalizer: the JSON value given to summarize_results
    normalized,      \* normalizer: [done, raised, results]
    ctext,           \* chunker: the text to split
    climit,          \* chunker: the limit
    segments         \* chunker: [done, out]

handlerVars == <<LEAKLOOKUP_KEY, live, pc, txt, email, result, sent, loop, queryCalls, netCalls>>
normVars    == <<payload, normalized>>
chunkVars   == <<ctext, climit, segments>>
vars        == <<handlerVars, normVars, chunkVars>>

\* ------------------------------------------------------- handle_check
\* reply_text(m): the text is handed to the transport and the coroutine
\* suspends until the send completes or raises.
Send(c, m, next) ==
    /\ sent' = [sent EXCEPT ![c] = Append(@, m)]
    /\ pc' = [pc EXCEPT ![c] = next]

\* lines 126-145 up to the first await: the runtime dispatches the message
\* of chat c to handle_check
Dispatch(c) ==
    /\ loop = "idle"
    /\ c \in live
    /\ pc[c] = "idle"
    /\ \E t \in Texts :
         LET stripped == Strip(t)
             lowered  == Lower(stripped)
         IN  /\ txt' = [txt EXCEPT ![c] = t]
             /\ IF ~is_likely_email(stripped)
                THEN /\ Send(c, Reply("hint", <<>>, NoErr), "await_hint")
                     /\ UNCHANGED email
                ELSE /\ email' = [email EXCEPT ![c] = lowered]
                     /\ IF Contains(lowered, "breach-test")
                        THEN Send(c, Reply("simulated", lowered, NoErr), "await_simulated")
                        ELSE Send(c, Reply("checking", lowered, NoErr), "await_checking1")
    /\ UNCHANGED <<LEAKLOOKUP_KEY, live, result, loop, queryCalls, netCalls, normVars, chunkVars>>

\* lines 130-131, 136-140, 148-149: the reply completes (or raises) and the
\* handler returns
ReplyThenReturn(c) ==
    /\ loop = "idle"
    /\ pc[c] \in {"await_hint", "await_simulated", "await_error"}
    /\ \E ok \in BOOLEAN : pc' = [pc EXCEPT ![c] = IF ok THEN "done" ELSE "raised"]
    /\ UNCHANGED <<LEAKLOOKUP_KEY, live, txt, email, result, sent, loop, queryCalls, netCalls,
                   normVars, chunkVars>>

\* lines 144-145: the first progress notice completes; the second is sent
SecondNotice(c) ==
    /\ loop = "idle"
    /\ pc[c] = "await_checking1"
    /\ \E ok \in BOOLEAN :
         IF ok THEN Send(c, Reply("checking", email[c], NoErr), "await_checking2")
         ELSE /\ pc' = [pc EXCEPT ![c] = "raised"]
              /\ UNCHANGED sent
    /\ UNCHANGED <<LEAKLOOKUP_KEY, live, txt, email, result, loop, queryCalls, netCalls,
                   normVars, chunkVars>>

\* lines 145-146 and 45-55: the second notice completes and leaklookup_query
\* is called; without a key it returns at once (lines 51-52, 147-148), with
\* one it calls requests.get, which does not return to the event loop.
StartLookup(c) ==
    /\ loop = "idle"
    /\ pc[c] = "await_checking2"
    /\ \E ok \in BOOLEAN :
         IF ~ok
         THEN /\ pc' = [pc EXCEPT ![c] = "raised"]
              /\ UNCHANGED <<result, sent, loop, queryCalls, netCalls>>
         ELSE /\ queryCalls' = [queryCalls EXCEPT ![c] = @ + 1]
              /\ IF LEAKLOOKUP_KEY = ""
                 THEN /\ result' = [result EXCEPT ![c] = NoKeyOutcome]
                      /\ Send(c, Reply("error", <<>>, NoKeyOutcome.err), "await_error")
                      /\ UNCHANGED <<loop, netCalls>>
                 ELSE /\ netCalls' = [netCalls EXCEPT ![c] = @ + 1]
                      /\ pc' = [pc EXCEPT ![c] = "in_flight"]
                      /\ loop' = c
                      /\ UNCHANGED <<result, sent>>
    /\ UNCHANGED <<LEAKLOOKUP_KEY, live, txt, email, normVars, chunkVars>>

\* LookupReturns with the error reply leaving out the detail
LookupReturns_noDetail(c) ==
    /\ loop = c
    /\ pc[c] = "in_flight"
    /\ \E r \in Responses :
         LET out == Classify(r, LEAKLOOKUP_KEY)
         IN  /\ result' = [result EXCEPT ![c] = out]
             /\ IF out.err # NoErr
                THEN Send(c, Reply("error", <<>>, NoErr), "await_error")
                ELSE /\ pc' = [pc EXCEPT ![c] = "done"]
                     /\ UNCHANGED sent
    /\ loop' = "idle"
    /\ UNCHANGED <<LEAKLOOKUP_KEY, live, txt, email, queryCalls, netCalls, normVars, chunkVars>>

\* lines 55-76 and 146-149: requests.get returns or raises, the outcome is
\* classified; on an error the error reply is sent, otherwise control
\* leaves the `if err:` block and the handler ends.
LookupReturns(c) ==
    /\ loop = c
    /\ pc[c] = "in_flight"
    /\ \E r \in Responses :
         LET out == Classify(r, LEAKLOOKUP_KEY)
         IN  /\ result' = [result EXCEPT ![c] = out]
             /\ IF out.err # NoErr
                THEN Send(c, Reply("error", <<>>, out.err), "await_error")
                ELSE /\ pc' = [pc EXCEPT ![c] = "done"]
                     /\ UNCHANGED sent
    /\ loop' = "idle"
    /\ UNCHANGED <<LEAKLOOKUP_KEY, live, txt, email, queryCalls, netCalls, normVars, chunkVars>>

Step(c) ==
    \/ Dispatch(c)
    \/ ReplyThenReturn(c)
    \/ SecondNotice(c)
    \/ StartLookup(c)
    \/ LookupReturns(c)

\* ------------------------------------------------------------- payloads
MaxItems == 2

Items ==
    { JDict(<< <<"source", JStr(<<"s">>)>>, <<"date", JStr(<<"d">>)>>,
               <<"data", JList(<<JStr(<<"e">>), JNum(5)>>)>> >>),
      JDict(<< <<"site", JStr(<<"t">>)>>, <<"DataClasses", JDict(<< <<"p", JNum(1)>> >>)>> >>),
      JDict(<< <<"Name", JStr(<<>>)>>, <<"types", JStr(<<"a", "b">>)>> >>),
      JDict(<< <<"domain", JStr(<<"u">>)>>, <<"data", JNum(7)>> >>),
      JStr(<<"x">>),
      JNull }

ItemLists == UNION {[1..n -> Items] : n \in 0..MaxItems}

Payloads ==
    {JDict(<< <<"results", JList(l)>> >>) : l \in ItemLists}
    \cup {JDict(<< <<"data", JList(l)>>, <<"results", JList(<<JNull>>)>> >>) : l \in ItemLists}
    \cup {JDict(<< <<"results", JStr(<<"n">>)>>, <<"items", JList(l)>> >>) : l \in ItemLists}
    \cup {JDict(<< <<"site-a", JList(l)>>, <<"note", JStr(<<"n">>)>>,
                   <<"site-b", JList(<<JNull>>)>> >>) : l \in ItemLists}
    \cup {JList(l) : l \in ItemLists}
    \cup {JNull, JNum(3), JStr(<<"x">>), JDict(<<>>)}

NotNormalized == [done |-> FALSE, raised |-> FALSE, results |-> <<>>]

\* summarize_results(payload)
Normalize ==
    /\ ~normalized.done
    /\ LET r == summarize_results(payload)
       IN  normalized' = [done |-> TRUE, raised |-> r.raised, results |-> r.results]
    /\ UNCHANGED <<payload, handlerVars, chunkVars>>

\* ---------------------------------------------------------- chunk inputs
MaxText  == 5
MaxLimit == 3

ChunkTexts == UNION {[1..n -> {"a", "b"}] : n \in 0..MaxText}

NotChunked == [done |-> FALSE, out |-> <<>>]

\* line 166 with the limit climit
Chunk ==
    /\ ~segments.done
    /\ segments' = [done |-> TRUE, out |-> chunk(ctext, climit)]
    /\ UNCHANGED <<ctext, climit, handlerVars, normVars>>

\* ---------------------------------------------------------- specifications
HandlerInit(chats) ==
    /\ LEAKLOOKUP_KEY \in Keys
    /\ live = chats
    /\ pc = [c \in Chats |-> "idle"]
    /\ txt = [c \in Chats |-> <<>>]
    /\ email = [c \in Chats |-> <<>>]
    /\ result = [c \in Chats |-> NoOutcome]
    /\ sent = [c \in Chats |-> <<>>]
    /\ loop = "idle"
    /\ queryCalls = [c \in Chats |-> 0]
    /\ netCalls = [c \in Chats |-> 0]

NormIdle == payload = JNull /\ normalized = NotNormalized

ChunkIdle == ctext = <<>> /\ climit = 1 /\ segments = NotChunked

\* one chat session
Init == HandlerInit({"chatA"}) /\ NormIdle /\ ChunkIdle

Next == \E c \in Chats : Step(c)

Spec == Init /\ [][Next]_vars

\* two chat sessions on the one event loop
InitConc == HandlerInit(Chats) /\ NormIdle /\ ChunkIdle

SpecConc == InitConc /\ [][Next]_vars

\* the normalizer on every payload of Payloads
InitNormalize ==
    /\ HandlerInit({}) /\ LEAKLOOKUP_KEY = ""
    /\ ChunkIdle
    /\ payload \in Payloads
    /\ normalized = NotNormalized

NextNormalize == Normalize

SpecNormalize == InitNormalize /\ [][NextNormalize]_vars

\* the chunker on every text of ChunkTexts and every limit up to MaxLimit
InitChunk ==
    /\ HandlerInit({}) /\ LEAKLOOKUP_KEY = ""
    /\ NormIdle
    /\ ctext \in ChunkTexts
    /\ climit \in 1..MaxLimit
    /\ segments = NotChunked

NextChunk == Chunk

SpecChunk == InitChunk /\ [][NextChunk]_vars

\* =====================================================================
\* Properties
\* =====================================================================
RECURSIVE Concat(_)
Concat(ss) == IF ss = <<>> THEN <<>> ELSE Head(ss) \o Concat(Tail(ss))

Last(q) == q[Len(q)]

Ended(c) == pc[c] \in {"done", "raised"}

\* the lookup of chat c returned Success
Succeeded(c) == queryCalls[c] = 1 /\ pc[c] = "done" /\ result[c].err = NoErr

\* the plausible-email check as the specification words it: an "@", and a
\* "." somewhere after the last "@"
Plausible(t) ==
    /\ \E i \in DOMAIN t : t[i] = "@"
    /\ \E j \in DOMAIN t : t[j] = "." /\ \A i \in DOMAIN t : t[i] = "@" => i < j

Progress(c) == Reply("checking", email[c], NoErr)

\* C1: a message whose lookup returned Success ends with a report or the
\* no-results reply having been sent.
C1_SuccessIsDelivered ==
    \A c \in Chats :
        Succeeded(c) => \E i \in DOMAIN sent[c] : sent[c][i].kind \in {"report", "noresults"}

\* C2: a message whose text fails the plausible-email check gets the
\* format-hint reply and nothing else, the handler goes no further than
\* that reply, and neither leaklookup_query nor requests.get is called.
C2_RejectedWithoutLookup ==
    \A c \in Chats :
        (pc[c] # "idle" /\ ~Plausible(txt[c])) =>
            /\ sent[c] = <<Reply("hint", <<>>, NoErr)>>
            /\ pc[c] \in {"await_hint", "done", "raised"}
            /\ queryCalls[c] = 0
            /\ netCalls[c] = 0

\* C2 witness: a text with an "@" but no "." after it was rejected and the
\* handler has returned.
C2_Witness ==
    \E c \in Chats :
        /\ pc[c] = "done"
        /\ Contains(txt[c], "@") /\ Contains(txt[c], ".") /\ ~Plausible(txt[c])
        /\ sent[c] = <<Reply("hint", <<>>, NoErr)>>

\* C3: once the lookup has returned a Failure, the replies of the message
\* are the two progress notices and then one error reply carrying the
\* failure detail, and the handler does nothing more than complete it.
C3_FailureEndsWithOneError ==
    \A c \in Chats :
        result[c].err # NoErr =>
            /\ sent[c] = <<Progress(c), Progress(c), Reply("error", <<>>, result[c].err)>>
            /\ pc[c] \in {"await_error", "done", "raised"}
            /\ queryCalls[c] = 1

\* C3 witness: a non-200 response was reported and the handler returned.
C3_Witness ==
    \E c \in Chats :
        /\ pc[c] = "done"
        /\ result[c].err.kind = "http"
        /\ Last(sent[c]).kind = "error"

\* C4: after a Success with at least one record, the replies that follow
\* the progress notices are the chunks of the report, in order, cut short
\* only by one delivery-failed notice.
C4_ChunksInOrder ==
    \A c \in Chats :
        (Succeeded(c) /\ ~summarize_results(result[c].data).raised
                      /\ summarize_results(result[c].data).results # <<>>) =>
            LET rest == SubSeq(sent[c], 3, Len(sent[c]))
            IN  /\ rest # <<>>
                /\ \A i \in DOMAIN rest :
                       \/ rest[i].kind = "chunk"
                       \/ i = Len(rest) /\ i > 1 /\ rest[i].kind = "notice"

\* C5: no text passed to the chat transport is longer than the chunk limit.
C5_NoReplyOverLimit ==
    \A c \in Chats : \A i \in DOMAIN sent[c] : Length(sent[c][i]) <= ChunkLimit

\* C6: the segments of chunk(text, N), concatenated in order, are the text,
\* and the empty text gives no segment.
C6_ChunkRoundTrip ==
    segments.done =>
        /\ Concat(segments.out) = ctext
        /\ (ctext = <<>> => segments.out = <<>>)

\* C6 witness: a text was cut into several segments, the last one short.
C6_Witness ==
    /\ segments.done
    /\ Len(segments.out) >= 2
    /\ Len(ctext) % climit # 0

\* C7: for a mapping with a `results` list, normalize does not raise and
\* returns one record per mapping-typed element of the list, in order.
C7_OneRecordPerMapping ==
    (normalized.done /\ payload.k = "dict" /\ Get(payload, "results", JNull).k = "list") =>
        /\ ~normalized.raised
        /\ [i \in DOMAIN normalized.results |-> normalized.results[i].raw]
              = SelectSeq(Get(payload, "results", JNull).v, LAMBDA it : it.k = "dict")

\* C8: while the lookup of one chat is in flight, the handler of every
\* other chat that has not ended can take a step.
C8_OthersNotBlocked ==
    \A c \in Chats :
        pc[c] = "in_flight" =>
            \A d \in Chats \ {c} : (d \in live /\ ~Ended(d)) => ENABLED Step(d)

\* C9: the credential occurs neither in a failure detail nor in any text
\* sent to the user.
C9_CredentialNeverShown ==
    \A c \in Chats :
        /\ LEAKLOOKUP_KEY \notin result[c].err.secrets
        /\ \A i \in DOMAIN sent[c] : LEAKLOOKUP_KEY \notin sent[c][i].err.secrets

\* C10: a message that passes the plausible-email check is never given a
\* reply other than the progress notice before leaklookup_query has been
\* called for it, and the call is made at most once.
C10_OneLookupPerValidMessage ==
    \A c \in Chats :
        /\ queryCalls[c] <= 1
        /\ (Plausible(txt[c]) /\ \E i \in DOMAIN sent[c] : sent[c][i].kind # "checking")
               => queryCalls[c] = 1

====
